---- MODULE Spec2Model ----
(***************************************************************************)
(* NDVI map/value service: the serverless request handlers of the          *)
(* repository, modelled as callback-driven state machines.                 *)
(*                                                                         *)
(*   value4      src/unnamed/part_004   point value, with pre-flight       *)
(*   value3      src/unnamed/part_003   point value, earlier revision      *)
(*   tileRedirect src/unnamed/part_001 (1-75)   tile, redirect mode        *)
(*   tileProxy   src/unnamed/part_001 (78-170)  tile, proxy mode           *)
(*   tile2       src/unnamed/part_002   tile, earlier revision             *)
(*   recommend   src/api/get-recommendations.js   recommendation endpoint  *)
(*                                                                         *)
(* Every handler runs synchronously up to its next await / callback; one   *)
(* action is one such run.  The remote backend (Earth Engine, the upstream *)
(* tile server) is the environment: each callback action draws the answer  *)
(* from a small set.                                                       *)
(***************************************************************************)
EXTENDS Integers, Sequences, FiniteSets, TLC

VARIABLES
    cfg,        \* process.env: "ok", "nokey" (GEE_PRIVATE_KEY_JSON unset), "noproject",
                \* "noopenai" (OPENAI_API_KEY unset)
    cfgReads,   \* how many times process.env has been read and parsed
    eeSession,  \* the `ee` module singleton: request whose credentials it holds (0: none)
    pc,         \* per request: where its handler is suspended
    kind,       \* per request: which handler serves it
    query,      \* per request: req.method, req.query, req.headers (drawn when the handler gets to them)
    resp,       \* per request: the response the caller receives (first status line written)
    writes,     \* per request: how many times a response was started
    log,        \* per request: the evaluation boundaries, in the order they happened
    cause,      \* per request: the failure condition that actually occurred
    foreign,    \* per request: some backend call of it ran under a session another request wrote
    tile,       \* per request: mapId.urlFormat, tileUrl, upstream request and response
    pixel       \* one pixel of a collection image: its QA60 value, and what the cloud mask made of it

vars == <<cfg, cfgReads, eeSession, pc, kind, query, resp, writes, log, cause, foreign, tile, pixel>>

\* Number of requests the process handles (concurrently).
NumRequests == 2

Req == 1..NumRequests

-----------------------------------------------------------------------------
(* JavaScript values *)

\* `undefined` as read from req.query / req.headers; query strings are
\* sequences of one-character strings.
Undefined == <<"undefined">>

NaN == [nan |-> TRUE, v |-> 0]
Num(n) == [nan |-> FALSE, v |-> n]

Digits == {"0", "1", "2", "3", "4", "5", "6", "7", "8", "9"}

DigitVal(c) ==
    CASE c = "0" -> 0 [] c = "1" -> 1 [] c = "2" -> 2 [] c = "3" -> 3 [] c = "4" -> 4
      [] c = "5" -> 5 [] c = "6" -> 6 [] c = "7" -> 7 [] c = "8" -> 8 [] OTHER -> 9

\* Value of the longest digit prefix of s, given the value acc read so far;
\* n counts the digits read.
RECURSIVE DigitPrefix(_, _, _)
DigitPrefix(s, acc, n) ==
    IF s # <<>> /\ Head(s) \in Digits
    THEN DigitPrefix(Tail(s), 10 * acc + DigitVal(Head(s)), n + 1)
    ELSE [val |-> acc, count |-> n]

\* parseFloat: the number at the start of the string, trailing text ignored;
\* NaN when the string does not start with a number (or is undefined).
parseFloat(s) ==
    IF s = Undefined \/ s = <<>> THEN NaN
    ELSE LET neg == Head(s) = "-"
             body == IF neg THEN Tail(s) ELSE s
             p == DigitPrefix(body, 0, 0)
         IN  IF p.count = 0 THEN NaN
             ELSE Num(IF neg THEN 0 - p.val ELSE p.val)

isNaN(x) == x.nan

\* !v for a query-string value: undefined and the empty string are falsy.
Falsy(s) == s = Undefined \/ s = <<>>

\* JSON values carried in the `ndvi` field.
JAbsent == [t |-> "absent", v |-> 0]
JNull == [t |-> "null", v |-> 0]
JNum(n) == [t |-> "num", v |-> n]

\* What a backend error callback is handed: a string or an Error object,
\* with the text the backend gives for the call that failed.
ErrorsSaying(text) ==
    { [isError |-> FALSE, text |-> text], [isError |-> TRUE, text |-> text] }

AuthErrors == ErrorsSaying("invalid_grant: Invalid JWT signature.")
InitErrors == ErrorsSaying("Earth Engine client library not initialized.")
EvaluateErrors == ErrorsSaying("Computation timed out.")
GetMapErrors == ErrorsSaying("Image.visualize: No band named 'NDVI'.")

\* `${err}` / String(err)
StringOf(e) == IF e.isError THEN <<"Error: ", e.text>> ELSE <<e.text>>

\* err.message (undefined, here <<>>, on a string)
MessageOf(e) == IF e.isError THEN <<e.text>> ELSE <<>>

\* new Error(x)
NewError(msg) == [isError |-> TRUE, msg |-> msg]
\* a value rejected as it came from the library
Raw(e) == [isError |-> e.isError, msg |-> MessageOf(e)]

-----------------------------------------------------------------------------
(* Responses *)

NoHeaders == {}

CorsValue == { "Access-Control-Allow-Origin: *",
               "Access-Control-Allow-Methods: GET, OPTIONS",
               "Access-Control-Allow-Headers: Content-Type" }

NoResp ==
    [status |-> 0, type |-> "none", error |-> <<>>, details |-> <<>>,
     ndvi |-> JAbsent, location |-> <<>>, headers |-> NoHeaders,
     recommendation |-> <<>>]

\* res.status(s).end()
EndEmpty(s, h) == [NoResp EXCEPT !.status = s, !.type = "empty", !.headers = h]

\* res.status(s).json({ error, details })  (an undefined member is not serialised)
JsonError(s, h, e, d) ==
    [NoResp EXCEPT !.status = s, !.type = "json", !.error = e, !.details = d, !.headers = h]

\* res.status(200).json({ ndvi })
JsonNdvi(h, v) == [NoResp EXCEPT !.status = 200, !.type = "json", !.ndvi = v, !.headers = h]

\* res.status(s).send(text)
SendText(s, text) == [NoResp EXCEPT !.status = s, !.type = "text", !.error = text]

\* res.redirect(s, url)
Redirect(s, url) == [NoResp EXCEPT !.status = s, !.type = "redirect", !.location = url]

\* res.writeHead(status, headers); proxyRes.pipe(res)
Stream(s, h) == [NoResp EXCEPT !.status = s, !.type = "stream", !.headers = h]


-----------------------------------------------------------------------------
(* Request inputs and backend answers *)

\* (lat, longitude) query parameters of a point-value request.
CoordQueries ==
    { <<Undefined, Undefined>>, <<Undefined, <<"9">> >>, << <<"-", "7">>, Undefined>>,
      << <<>>, <<"9">> >>, << <<"a">>, <<"9">> >>, << <<"-", "7">>, <<"a">> >>,
      << <<"-", "7">>, <<"9">> >>, << <<"7", "a">>, <<"9">> >> }

Methods == {"GET", "OPTIONS"}

\* NDVI scalars the reduction can evaluate to (tenths).
NdviValues == {0, 6}

JUndefined == [t |-> "undefined", v |-> 0]

\* (result) of ndviValue.evaluate when there is no error
ReduceResults == {JNull, JUndefined} \cup {JNum(n) : n \in NdviValues}

\* JSON.stringify of an object member: undefined members are dropped.
Json(v) == IF v = JUndefined THEN JAbsent ELSE v

\* z/x/y and User-Agent of a tile request, as token sequences.
TileQueries ==
    { [z |-> <<"5">>, x |-> <<"10">>, y |-> <<"3">>, ua |-> <<"Mozilla">>],
      [z |-> <<"5">>, x |-> <<"10">>, y |-> <<"3">>, ua |-> Undefined],
      [z |-> <<"7">>, x |-> <<"3">>, y |-> <<"10">>, ua |-> <<"curl">>] }

NoQuery ==
    [method |-> "GET", lat |-> Undefined, lon |-> Undefined,
     z |-> Undefined, x |-> Undefined, y |-> Undefined, ua |-> Undefined,
     body |-> [present |-> FALSE, lat |-> JAbsent, lon |-> JAbsent,
               ndvi |-> JAbsent, weatherData |-> JAbsent]]

\* mapId.urlFormat answers of the backend: one placeholder each for zoom, x, y.
UrlFormats ==
    { <<"https://", "earthengine.example", "/map/", "{z}", "/", "{x}", "/", "{y}">>,
      <<"https://", "earthengine.example", "/t?y=", "{y}", "&x=", "{x}", "&z=", "{z}">> }

Placeholders == {"{x}", "{y}", "{z}"}

\* Status and headers of the upstream tile server's response.
UpstreamResponses ==
    { [status |-> 200, headers |-> {"Content-Type: image/png", "Cache-Control: max-age=3600"}],
      [status |-> 404, headers |-> {"Content-Type: text/plain"}] }

NoTile ==
    [urlFormat |-> <<>>, tileUrl |-> <<>>, hostname |-> <<>>, path |-> <<>>,
     userAgent |-> Undefined, upStatus |-> 0, upHeaders |-> NoHeaders]

-----------------------------------------------------------------------------
(* String.prototype.replace(pattern, replacement) with a string pattern *)

\* Index of the first occurrence of token pat in s, 0 when there is none.
RECURSIVE IndexOf(_, _, _)
IndexOf(s, pat, i) ==
    IF i > Len(s) THEN 0
    ELSE IF s[i] = pat THEN i
    ELSE IndexOf(s, pat, i + 1)

\* The replacement string with its special pattern $& expanded to the match.
RECURSIVE Expand(_, _)
Expand(rep, pat) ==
    IF rep = <<>> THEN <<>>
    ELSE (IF Head(rep) = "$&" THEN <<pat>> ELSE <<Head(rep)>>) \o Expand(Tail(rep), pat)

\* Only the first occurrence is replaced.
JsReplace(s, pat, rep) ==
    LET i == IndexOf(s, pat, 1)
    IN  IF i = 0 THEN s
        ELSE SubSeq(s, 1, i - 1) \o Expand(rep, pat) \o SubSeq(s, i + 1, Len(s))

\* mapId.urlFormat.replace('{x}', x).replace('{y}', y).replace('{z}', z)
SubstituteTile(urlFormat, x, y, z) ==
    JsReplace(JsReplace(JsReplace(urlFormat, "{x}", x), "{y}", y), "{z}", z)

\* url.parse(tileUrl): hostname and path, the scheme set aside.
UrlParse(u) == [hostname |-> <<u[2]>>, path |-> SubSeq(u, 3, Len(u))]


-----------------------------------------------------------------------------
(* Handlers *)

ValueKinds == {"value4", "value3"}
TileKinds == {"tileRedirect", "tileProxy", "tile2"}

\* Headers set with res.setHeader before the handler answers.
HeadersOf(k) == IF k = "value4" THEN CorsValue ELSE NoHeaders

\* The first response started is the one the caller receives; a later
\* res.status(..).json/send cannot replace a status line already written.
Respond(r, response) ==
    /\ resp' = [resp EXCEPT ![r] = IF writes[r] = 0 THEN response ELSE @]
    /\ writes' = [writes EXCEPT ![r] = @ + 1]

\* The catch block of the handler of kind k, given the thrown value e.
CatchResponse(k, e) ==
    CASE k = "value4" ->
           JsonError(500, HeadersOf(k),
                     IF e.msg # <<>> THEN e.msg ELSE <<"An internal server error occurred.">>,
                     <<>>)
      [] k = "value3" ->
           JsonError(500, HeadersOf(k), <<"Failed to get GEE value.">>, e.msg)
      [] OTHER ->
           JsonError(500, HeadersOf(k), <<"Failed to generate GEE map tiles.">>, e.msg)

\* A rejected await: the catch block answers and the handler returns.
Fail(r, k, why, events, e) ==
    /\ Respond(r, CatchResponse(k, e))
    /\ pc' = [pc EXCEPT ![r] = "done"]
    /\ cause' = [cause EXCEPT ![r] = why]
    /\ log' = [log EXCEPT ![r] = @ \o events \o <<"respond">>]

\* JSON.parse(process.env.GEE_PRIVATE_KEY_JSON) on an unset variable.
JsonParseError == NewError(<<"Unexpected token u in JSON at position 0">>)

\* authenticateAndInitialize / initializeEe up to the authentication call:
\* reads the configuration, then asks the library to authenticate.
authenticateAndInitialize(r, k) ==
    /\ cfgReads' = cfgReads + 1
    /\ IF cfg = "nokey"
       THEN Fail(r, k, "config", <<>>, JsonParseError)
       ELSE /\ pc' = [pc EXCEPT ![r] = "auth"]
            /\ log' = [log EXCEPT ![r] = @ \o <<"auth">>]
            /\ UNCHANGED <<resp, writes, cause>>

\* module.exports of the point-value handler with pre-flight.
ValueHandler4(r) ==
    /\ pc[r] = "idle"
    /\ \E m \in Methods, c \in CoordQueries :
         /\ kind' = [kind EXCEPT ![r] = "value4"]
         /\ query' = [query EXCEPT ![r] = [NoQuery EXCEPT !.method = m, !.lat = c[1], !.lon = c[2]]]
         /\ IF m = "OPTIONS"
            THEN /\ Respond(r, EndEmpty(200, CorsValue))
                 /\ pc' = [pc EXCEPT ![r] = "done"]
                 /\ log' = [log EXCEPT ![r] = @ \o <<"respond">>]
                 /\ UNCHANGED <<cfgReads, cause>>
            ELSE IF isNaN(parseFloat(c[1])) \/ isNaN(parseFloat(c[2]))
            THEN /\ Respond(r, JsonError(400, CorsValue, <<"Invalid or missing coordinates.">>, <<>>))
                 /\ pc' = [pc EXCEPT ![r] = "done"]
                 /\ cause' = [cause EXCEPT ![r] = "validation"]
                 /\ log' = [log EXCEPT ![r] = @ \o <<"respond">>]
                 /\ UNCHANGED cfgReads
            ELSE authenticateAndInitialize(r, "value4")
    /\ UNCHANGED <<pixel, cfg, eeSession, foreign, tile>>

\* module.exports of the earlier point-value handler.
ValueHandler3(r) ==
    /\ pc[r] = "idle"
    /\ \E c \in CoordQueries :
         /\ kind' = [kind EXCEPT ![r] = "value3"]
         /\ query' = [query EXCEPT ![r] = [NoQuery EXCEPT !.lat = c[1], !.lon = c[2]]]
         /\ IF Falsy(c[1]) \/ Falsy(c[2])
            THEN /\ Respond(r, JsonError(400, NoHeaders,
                                <<"Latitude (lat) and Longitude (lng) are required.">>, <<>>))
                 /\ pc' = [pc EXCEPT ![r] = "done"]
                 /\ cause' = [cause EXCEPT ![r] = "validation"]
                 /\ log' = [log EXCEPT ![r] = @ \o <<"respond">>]
                 /\ UNCHANGED cfgReads
            ELSE authenticateAndInitialize(r, "value3")
    /\ UNCHANGED <<pixel, cfg, eeSession, foreign, tile>>

\* module.exports of a tile handler: nothing of the request is read before
\* the session is established.
TileHandler(r) ==
    /\ pc[r] = "idle"
    /\ \E k \in TileKinds :
         /\ kind' = [kind EXCEPT ![r] = k]
         /\ authenticateAndInitialize(r, k)
    /\ UNCHANGED <<pixel, cfg, eeSession, query, foreign, tile>>

\* The value the promise is rejected with when authentication fails.
AuthRejection(k, e) ==
    IF k \in {"value3", "tile2"}
    THEN Raw(e)
    ELSE NewError(<<"GEE Authentication failed: ">> \o StringOf(e))

\* ee.data.authenticateViaPrivateKey succeeded: the library now holds this
\* request's credentials, and ee.initialize is called.
AuthSuccess(r) ==
    /\ pc[r] = "auth"
    /\ eeSession' = r
    /\ pc' = [pc EXCEPT ![r] = "init"]
    /\ log' = [log EXCEPT ![r] = @ \o <<"authOk", "init">>]
    /\ UNCHANGED foreign
    /\ UNCHANGED <<pixel, cfg, cfgReads, kind, query, resp, writes, cause, tile>>

AuthFailure(r) ==
    /\ pc[r] = "auth"
    /\ \E e \in AuthErrors : Fail(r, kind[r], "auth", <<"authFail">>, AuthRejection(kind[r], e))
    /\ UNCHANGED <<pixel, cfg, cfgReads, eeSession, kind, query, foreign, tile>>

\* The backend call the handler of kind k issues once the session is ready.
FirstCall(k) ==
    CASE k = "value4" -> "preflight"
      [] k = "value3" -> "reduce"
      [] OTHER -> "getMap"

\* ee.initialize succeeded: the promise resolves, the handler assembles the
\* deferred image and issues its first evaluation.
InitSuccess(r) ==
    /\ pc[r] = "init"
    /\ pc' = [pc EXCEPT ![r] = FirstCall(kind[r])]
    /\ log' = [log EXCEPT ![r] = @ \o <<"initOk", "assemble", FirstCall(kind[r])>>]
    /\ foreign' = [foreign EXCEPT ![r] = @ \/ eeSession # r]
    /\ UNCHANGED <<pixel, cfg, cfgReads, eeSession, kind, query, resp, writes, cause, tile>>

\* ee.initialize failed: reject is handed the library's error as it is.
InitFailure(r) ==
    /\ pc[r] = "init"
    /\ \E e \in InitErrors : Fail(r, kind[r], "init", <<"initFail">>, Raw(e))
    /\ UNCHANGED <<pixel, cfg, cfgReads, eeSession, kind, query, foreign, tile>>


-----------------------------------------------------------------------------
(* Point value: pre-flight and reduction *)

NoImageError == NewError(<<"No recent cloud-free image found for this location.">>)
NoDataError == NewError(<<"Point may be in water or an area with no data.">>)

\* (id, err) handed to the pre-flight callback: a backend error, no id (no
\* image passed the filters), or the id of the selected image.
PreflightAnswers ==
    { [err |-> TRUE, id |-> <<>>],
      [err |-> FALSE, id |-> <<>>],
      [err |-> FALSE, id |-> <<"20261101T063021_T42UXV">>] }

\* The log entry of a pre-flight answer.
PreflightEvent(a) ==
    IF a.err THEN "preflightErr" ELSE IF a.id = <<>> THEN "preflightNoId" ELSE "preflightOk"

\* Variant: only the error is looked at, an absent id passes.
NoIdentityErrOnly(a) == a.err

\* if (err || !id)
NoIdentity(a) == a.err \/ a.id = <<>>

\* image.get('system:index').evaluate((id, err) => ...) in runAnalysis:
\* without an id the promise is rejected; with one the reduction is issued.
PreflightCallback(r) ==
    /\ pc[r] = "preflight"
    /\ \E a \in PreflightAnswers :
         IF NoIdentity(a)
         THEN /\ Fail(r, kind[r], IF a.err THEN "eval" ELSE "noimage",
                      <<PreflightEvent(a)>>, NoImageError)
              /\ UNCHANGED foreign
         ELSE /\ pc' = [pc EXCEPT ![r] = "reduce"]
              /\ log' = [log EXCEPT ![r] = @ \o <<PreflightEvent(a), "reduce">>]
              /\ foreign' = [foreign EXCEPT ![r] = @ \/ eeSession # r]
              /\ UNCHANGED <<resp, writes, cause>>
    /\ UNCHANGED <<pixel, cfg, cfgReads, eeSession, kind, query, tile>>

\* What the handler of kind k does with the reduction's result v (no error).
ReduceOutcome(k, v) ==
    IF k = "value4" /\ v \in {JNull, JUndefined}
    THEN [ok |-> FALSE, response |-> CatchResponse(k, NoDataError)]
    ELSE [ok |-> TRUE, response |-> JsonNdvi(HeadersOf(k), Json(v))]

\* The error the reduction's error callback rejects with.
EvaluationRejection(k, e) ==
    IF k = "value4"
    THEN NewError(<<"GEE Evaluation Error: ">> \o StringOf(e))
    ELSE NewError(StringOf(e))

\* The evaluation callback returning without settling the promise.
ReduceCallbackUnsettled(r) ==
    /\ pc[r] = "reduce"
    /\ pc' = [pc EXCEPT ![r] = "unsettled"]
    /\ UNCHANGED <<pixel, cfg, cfgReads, eeSession, kind, query, resp, writes, log, cause, foreign, tile>>

\* ndviValue.evaluate((result, error) => ...) in runAnalysis, and
\* data.evaluate in the earlier handler's evaluate helper.
ReduceCallback(r) ==
    /\ pc[r] = "reduce"
    /\ \/ \E e \in EvaluateErrors :
            Fail(r, kind[r], "eval", <<"reduceErr">>, EvaluationRejection(kind[r], e))
       \/ \E v \in ReduceResults :
            LET o == ReduceOutcome(kind[r], v)
            IN  /\ Respond(r, o.response)
                /\ pc' = [pc EXCEPT ![r] = "done"]
                /\ cause' = [cause EXCEPT ![r] =
                               IF v \in {JNull, JUndefined} THEN "nodata" ELSE "none"]
                /\ log' = [log EXCEPT ![r] = @ \o <<"reduceOk", "respond">>]
    /\ UNCHANGED <<pixel, cfg, cfgReads, eeSession, kind, query, foreign, tile>>

-----------------------------------------------------------------------------
(* Tiles: template, redirect, proxy *)

\* Status of res.redirect(url) called without one: the framework's default.
DefaultRedirectStatus == {302, 307}

\* https.request rejects a header whose value is undefined.
InvalidHeaderError == NewError(<<"Invalid value \"undefined\" for header \"User-Agent\"">>)

\* Variant: the upstream request names the proxy itself as the agent.
ProxyOptionsFixedAgent(parsedUrl, ua) ==
    [hostname |-> parsedUrl.hostname, path |-> parsedUrl.path, userAgent |-> <<"node">>]

\* const options = { hostname, path, method: 'GET', headers: { 'User-Agent': ... } }
ProxyOptions(parsedUrl, ua) ==
    [hostname |-> parsedUrl.hostname, path |-> parsedUrl.path, userAgent |-> ua]

\* image.getMap(visParams, (mapId, error) => ...) and what the handler does
\* with the template in the same run.
GetMapCallback(r) ==
    /\ pc[r] = "getMap"
    /\ \/ /\ \E e \in GetMapErrors :
               Fail(r, kind[r], "template", <<"getMapErr">>, NewError(StringOf(e)))
          /\ UNCHANGED <<query, tile, foreign>>
       \/ \E f \in UrlFormats :
            CASE kind[r] = "tile2" ->
                   /\ \E s \in DefaultRedirectStatus : Respond(r, Redirect(s, f))
                   /\ \E q \in TileQueries :
                        query' = [query EXCEPT ![r] = [NoQuery EXCEPT !.x = q.x, !.y = q.y, !.z = q.z]]
                   /\ tile' = [tile EXCEPT ![r].urlFormat = f, ![r].tileUrl = f]
                   /\ pc' = [pc EXCEPT ![r] = "done"]
                   /\ log' = [log EXCEPT ![r] = @ \o <<"getMapOk", "respond">>]
                   /\ UNCHANGED <<cause, foreign>>
              [] kind[r] = "tileRedirect" ->
                   \E q \in TileQueries :
                     LET u == SubstituteTile(f, q.x, q.y, q.z)
                     IN  /\ query' = [query EXCEPT ![r] = [NoQuery EXCEPT !.x = q.x, !.y = q.y, !.z = q.z]]
                         /\ tile' = [tile EXCEPT ![r].urlFormat = f, ![r].tileUrl = u]
                         /\ Respond(r, Redirect(302, u))
                         /\ pc' = [pc EXCEPT ![r] = "done"]
                         /\ log' = [log EXCEPT ![r] = @ \o <<"getMapOk", "respond">>]
                         /\ UNCHANGED <<cause, foreign>>
              [] OTHER ->
                   \E q \in TileQueries :
                     LET u == SubstituteTile(f, q.x, q.y, q.z)
                         options == ProxyOptions(UrlParse(u), q.ua)
                     IN  /\ query' = [query EXCEPT ![r] = [NoQuery EXCEPT !.x = q.x, !.y = q.y, !.z = q.z, !.ua = q.ua]]
                         /\ IF q.ua = Undefined
                            THEN /\ Fail(r, kind[r], "request", <<"getMapOk">>, InvalidHeaderError)
                                 /\ tile' = [tile EXCEPT ![r].urlFormat = f, ![r].tileUrl = u]
                                 /\ UNCHANGED foreign
                            ELSE /\ tile' = [tile EXCEPT ![r].urlFormat = f, ![r].tileUrl = u,
                                                         ![r].hostname = options.hostname,
                                                         ![r].path = options.path,
                                                         ![r].userAgent = options.userAgent]
                                 /\ pc' = [pc EXCEPT ![r] = "fetch"]
                                 /\ log' = [log EXCEPT ![r] = @ \o <<"getMapOk", "fetch">>]
                                 /\ UNCHANGED <<resp, writes, cause, foreign>>
    /\ UNCHANGED <<pixel, cfg, cfgReads, eeSession, kind>>

\* The callback of https.request: the upstream's status line and headers are
\* written to the caller and the body is piped.
ProxyResponse(r) ==
    /\ pc[r] = "fetch"
    /\ \E u \in UpstreamResponses :
         /\ Respond(r, Stream(u.status, u.headers))
         /\ tile' = [tile EXCEPT ![r].upStatus = u.status, ![r].upHeaders = u.headers]
    /\ pc' = [pc EXCEPT ![r] = "relaying"]
    /\ log' = [log EXCEPT ![r] = @ \o <<"fetchOk", "respond">>]
    /\ UNCHANGED <<pixel, cfg, cfgReads, eeSession, kind, query, cause, foreign>>

\* proxyRes.pipe(res, { end: true }) reaches the end of the upstream body.
ProxyEnd(r) ==
    /\ pc[r] = "relaying"
    /\ pc' = [pc EXCEPT ![r] = "done"]
    /\ UNCHANGED <<pixel, cfg, cfgReads, eeSession, kind, query, resp, writes, log, cause, foreign, tile>>

\* proxyReq.on('error', ...): the handler answers 500 with a text body,
\* whether or not the upstream response has already been relayed.
ProxyError(r) ==
    /\ pc[r] \in {"fetch", "relaying"}
    /\ Respond(r, SendText(500, <<"Failed to proxy tile request">>))
    /\ pc' = [pc EXCEPT ![r] = "done"]
    /\ cause' = [cause EXCEPT ![r] = "proxyio"]
    /\ log' = [log EXCEPT ![r] = @ \o <<"fetchErr", "respond">>]
    /\ UNCHANGED <<pixel, cfg, cfgReads, eeSession, kind, query, foreign, tile>>

-----------------------------------------------------------------------------
(* The cloud mask mapped over the collection (maskS2clouds), per pixel *)

\* Width of the quality band values drawn.
QaBits == 12

QaValues == 0..(2^QaBits - 1)

\* a << n, for the shifts of the mask (1 << 10, 1 << 11), which stay far
\* below the 32-bit sign bit where << would wrap
ShiftLeft(a, n) == a * 2^n

\* ee.Image.bitwiseAnd on one pixel value
RECURSIVE bitwiseAnd(_, _)
bitwiseAnd(a, b) ==
    IF a = 0 \/ b = 0 THEN 0
    ELSE (a % 2) * (b % 2) + 2 * bitwiseAnd(a \div 2, b \div 2)

\* ee.Image.eq / ee.Image.and on one pixel value: 1 for true, 0 for false
eq(a, b) == IF a = b THEN 1 ELSE 0
and(a, b) == IF a # 0 /\ b # 0 THEN 1 ELSE 0

cloudBitMask == ShiftLeft(1, 10)
cirrusBitMask == ShiftLeft(1, 11)

\* The mask with the cirrus term left out.
maskS2cloudsCloudOnly(qa) ==
    eq(bitwiseAnd(qa, cloudBitMask), 0)

\* The mask value maskS2clouds computes for a pixel whose QA60 value is qa.
maskS2clouds(qa) ==
    and(eq(bitwiseAnd(qa, cloudBitMask), 0), eq(bitwiseAnd(qa, cirrusBitMask), 0))

NoPixel == [qa |-> 0, stage |-> "none", retained |-> FALSE]

\* image.updateMask(mask): the pixel is kept where the mask is non-zero.
MaskPixel ==
    /\ pixel.stage = "raw"
    /\ pixel' = [pixel EXCEPT !.stage = "masked", !.retained = (maskS2clouds(pixel.qa) # 0)]
    /\ UNCHANGED <<cfg, cfgReads, eeSession, pc, kind, query, resp, writes, log, cause, foreign, tile>>

-----------------------------------------------------------------------------
(* Specifications *)

InitOf(configs, pixels) ==
    /\ cfg \in configs
    /\ cfgReads = 0
    /\ eeSession = 0
    /\ pc = [r \in Req |-> "idle"]
    /\ kind = [r \in Req |-> "none"]
    /\ query = [r \in Req |-> NoQuery]
    /\ resp = [r \in Req |-> NoResp]
    /\ writes = [r \in Req |-> 0]
    /\ log = [r \in Req |-> <<>>]
    /\ cause = [r \in Req |-> "none"]
    /\ foreign = [r \in Req |-> FALSE]
    /\ tile = [r \in Req |-> NoTile]
    /\ pixel \in pixels

\* A process that serves requests: no image has been evaluated in it (the
\* image chain runs in the backend).
InitWith(configs) == InitOf(configs, {NoPixel})

Init == InitWith({"ok", "nokey"})

\* The session steps every handler shares.
SessionStep(r) ==
    \/ AuthSuccess(r)
    \/ AuthFailure(r)
    \/ InitSuccess(r)
    \/ InitFailure(r)

\* The point-value endpoint.
NextValue ==
    \E r \in Req :
        \/ ValueHandler4(r)
        \/ ValueHandler3(r)
        \/ SessionStep(r)
        \/ PreflightCallback(r)
        \/ ReduceCallback(r)

SpecValue == Init /\ [][NextValue]_vars

\* The tile endpoint.
NextTile ==
    \E r \in Req :
        \/ TileHandler(r)
        \/ SessionStep(r)
        \/ GetMapCallback(r)
        \/ ProxyResponse(r)
        \/ ProxyEnd(r)
        \/ ProxyError(r)

SpecTile == Init /\ [][NextTile]_vars

Next == NextValue \/ NextTile

Spec == Init /\ [][Next]_vars


-----------------------------------------------------------------------------
(* Reading the log *)

Has(r, ev) == \E i \in 1..Len(log[r]) : log[r][i] = ev

Pos(r, ev) == IndexOf(log[r], ev, 1)

Count(r, ev) == Cardinality({i \in 1..Len(log[r]) : log[r][i] = ev})

\* ev1 happened, and before ev2, whenever ev2 happened.
Before(r, ev1, ev2) == Has(r, ev2) => (Has(r, ev1) /\ Pos(r, ev1) < Pos(r, ev2))

\* The calls a handler issues to the backend or the upstream server.
Boundaries == {"auth", "init", "getMap", "preflight", "reduce", "fetch"}

\* The log entries of a failed call.
Failures == {"authFail", "initFail", "getMapErr", "preflightErr", "reduceErr", "fetchErr"}

ServerError(r) == resp[r].status \in 500..599

IsValue(r) == kind[r] \in ValueKinds
IsTile(r) == kind[r] \in TileKinds

-----------------------------------------------------------------------------
(* Claims *)

\* C1: a point-value request whose pre-flight check finds no identity for the
\* selected composite ends there with the 'no qualifying image' error, a 500
\* carrying no NDVI field; it never gets a success response.
C1_NoImageIsAnError ==
    \A r \in Req :
        (IsValue(r) /\ Has(r, "preflightNoId")) =>
            /\ pc[r] = "done"
            /\ resp[r].status = 500
            /\ resp[r].type = "json"
            /\ resp[r].error = <<"No recent cloud-free image found for this location.">>
            /\ resp[r].ndvi = JAbsent
            /\ ~Has(r, "reduce")

C1_Witness ==
    \E r \in Req : kind[r] = "value4" /\ Has(r, "preflightNoId") /\ writes[r] = 1

\* C2: a point-value request whose reduction evaluates to no value (null or
\* undefined) gets the 'no data at location' error, and every 200 response
\* carries an NDVI number that the reduction evaluated to.
C2_NoDataIsAnError ==
    \A r \in Req :
        IsValue(r) =>
            /\ cause[r] = "nodata" =>
                 /\ resp[r].status = 500
                 /\ resp[r].error = <<"Point may be in water or an area with no data.">>
            /\ (resp[r].status = 200 /\ query[r].method = "GET") =>
                 /\ resp[r].ndvi.t = "num"
                 /\ cause[r] = "none"

\* C3: a point-value request whose latitude or longitude is missing or does
\* not parse as a number gets a 400-class status, and no session
\* establishment or other backend call is issued for it.
C3_InvalidCoordinatesRejectedFirst ==
    \A r \in Req :
        ( /\ IsValue(r)
          /\ query[r].method = "GET"
          /\ isNaN(parseFloat(query[r].lat)) \/ isNaN(parseFloat(query[r].lon)) ) =>
            /\ resp[r].status \in 400..499
            /\ \A b \in Boundaries : ~Has(r, b)

\* C4: within one request the boundaries come in order: the session is
\* established before the image is assembled and before any evaluation; the
\* tile template is resolved before the redirect or the proxy fetch; the
\* pre-flight is issued first, the reduction only after it succeeded, and
\* the success response only after the reduction was evaluated.
C4_BoundariesInOrder ==
    \A r \in Req :
        /\ Before(r, "initOk", "assemble")
        /\ \A b \in {"getMap", "preflight", "reduce", "fetch"} : Before(r, "assemble", b)
        /\ Before(r, "getMapOk", "fetch")
        /\ (IsTile(r) /\ resp[r].type \in {"redirect", "stream"}) => Has(r, "getMapOk")
        /\ Before(r, "preflightOk", "reduce")
        /\ (IsValue(r) /\ resp[r].status = 200 /\ query[r].method = "GET") =>
               (Has(r, "reduceOk") /\ Pos(r, "reduce") < Pos(r, "reduceOk"))

\* The URL a tile request is redirected to or fetches upstream.
TargetUrl(r) ==
    IF kind[r] = "tileProxy"
    THEN <<"https://">> \o tile[r].hostname \o tile[r].path
    ELSE resp[r].location

\* The template with every placeholder token replaced by the request's value.
RECURSIVE Substituted(_, _)
Substituted(f, q) ==
    IF f = <<>> THEN <<>>
    ELSE (CASE Head(f) = "{x}" -> q.x
            [] Head(f) = "{y}" -> q.y
            [] Head(f) = "{z}" -> q.z
            [] OTHER -> <<Head(f)>>) \o Substituted(Tail(f), q)

\* C5: the URL the tile endpoint redirects to or proxy-fetches is the
\* backend's template with each placeholder replaced once by the request's
\* value, and holds no placeholder text.
C5_TileUrlSubstituted ==
    \A r \in Req :
        (IsTile(r) /\ (resp[r].type = "redirect" \/ Has(r, "fetch"))) =>
            /\ TargetUrl(r) = Substituted(tile[r].urlFormat, query[r])
            /\ \A i \in 1..Len(TargetUrl(r)) : TargetUrl(r)[i] \notin Placeholders

\* C6: the upstream fetch of a proxied tile request carries the caller's
\* User-Agent value unchanged, and once the upstream has answered, the
\* status and headers the caller receives are the upstream's.
C6_ProxyForwardsAgentAndStatus ==
    \A r \in Req :
        kind[r] = "tileProxy" =>
            /\ Has(r, "fetch") => tile[r].userAgent = query[r].ua
            /\ Has(r, "fetchOk") =>
                 /\ resp[r].status = tile[r].upStatus
                 /\ resp[r].headers = tile[r].upHeaders
                 /\ resp[r].type = "stream"

C6_Witness ==
    \E r \in Req :
        /\ kind[r] = "tileProxy"
        /\ Has(r, "fetchOk")
        /\ tile[r].upStatus = 404
        /\ query[r].ua = <<"Mozilla">>

\* The failure conditions the interface is to tell apart.
CoreCauses == {"auth", "noimage", "nodata", "eval", "template", "proxyio"}

\* C7: two requests that failed for different conditions never get the same
\* response (status and body).
C7_ErrorsDistinguishable ==
    \A r1, r2 \in Req :
        ( /\ pc[r1] = "done" /\ pc[r2] = "done"
          /\ cause[r1] \in CoreCauses /\ cause[r2] \in CoreCauses
          /\ cause[r1] # cause[r2] ) =>
            resp[r1] # resp[r2]

\* C8: each boundary is issued at most once per request, and once one has
\* failed the request has ended with a server-error response and no further
\* boundary is issued.
C8_NoRetryFailureFatal ==
    \A r \in Req :
        /\ \A b \in Boundaries : Count(r, b) <= 1
        /\ \A f \in Failures :
             Has(r, f) =>
                /\ pc[r] = "done"
                /\ ServerError(r)
                /\ \A i \in 1..Len(log[r]) : i > Pos(r, f) => log[r][i] \notin Boundaries

\* C9: every failure of the tile endpoint reaches the caller as a
\* server-error status with a structured body (a message, optional details).
C9_TileFailuresStructured ==
    \A r \in Req :
        (IsTile(r) /\ cause[r] # "none") =>
            /\ ServerError(r)
            /\ resp[r].type = "json"
            /\ resp[r].error # <<>>

\* C10: no backend call of a request runs under state another request wrote.
C10_RequestsIndependent ==
    \A r \in Req : ~foreign[r]

\* C11: over any sequence of requests served by one process, the
\* credential configuration (service-account key, project id) is read and
\* parsed at most once.
C11_CredentialsLoadedOnce ==
    cfgReads <= 1

\* Every configuration a deployment can start a process with: both
\* variables set, the key unset, or the project id unset.
InitConfig == InitWith({"ok", "nokey", "noproject"})

SpecConfig == InitConfig /\ [][Next]_vars

\* C12: when the service-account key or the project id is absent, every
\* request that has been taken up has ended with a server error whose cause
\* is the configuration, before any parameter validation outcome and before
\* any backend boundary was issued for it.
C12_MissingConfigFatalFirst ==
    \A r \in Req :
        ( /\ cfg \in {"nokey", "noproject"}
          /\ pc[r] # "idle"
          /\ query[r].method # "OPTIONS" ) =>
            /\ pc[r] = "done"
            /\ ServerError(r)
            /\ cause[r] = "config"
            /\ \A b \in Boundaries : ~Has(r, b)

-----------------------------------------------------------------------------
(* Recommendation endpoint: src/api/get-recommendations.js (the same        *)
(* handler, with another prompt text, is src/unnamed/part_000)              *)

CorsRecommend == { "Access-Control-Allow-Origin: *",
                   "Access-Control-Allow-Methods: POST, OPTIONS",
                   "Access-Control-Allow-Headers: Content-Type" }

RecommendMethods == {"OPTIONS", "GET", "POST"}

\* Members of a JSON request body: a string, an object.
JStr == [t |-> "str", v |-> 0]
JObj == [t |-> "obj", v |-> 0]

\* !v for a JSON value: undefined, null and 0 are falsy.
JFalsy(v) == v.t \in {"absent", "undefined", "null"} \/ (v.t = "num" /\ v.v = 0)

\* req.body: undefined when the request carries no parsed body, else the
\* object with the members the caller sent (an absent member reads undefined).
RecommendBodies ==
    { NoQuery.body } \cup
    [present : {TRUE}, lat : {JAbsent, JNum(51), JStr}, lon : {JAbsent, JNum(71)},
     ndvi : {JAbsent, JNum(0), JNum(6)}, weatherData : {JAbsent, JObj}]

\* res.status(200).json({ recommendation })
JsonRecommendation(h, text) ==
    [NoResp EXCEPT !.status = 200, !.type = "json", !.recommendation = text, !.headers = h]

\* The catch block of the recommendation handler.
RecommendCatch(e) ==
    JsonError(500, CorsRecommend, <<"Failed to get recommendation.">>, e.msg)

\* const { lat, ... } = req.body on an undefined body.
DestructureError ==
    NewError(<<"Cannot destructure property 'lat' of 'req.body' as it is undefined.">>)

\* lat.toFixed(4) on a value that is not a number.
ToFixedError == NewError(<<"lat.toFixed is not a function">>)

\* createPromptForAgronomist: throws when a coordinate is not a number.
PromptThrows(b) == b.lat.t # "num" \/ b.lon.t # "num"

\* The lines between the method checks and the backend call decide, from the
\* body and the configuration, whether the handler answers at once (and
\* what) or goes on to the text-generation backend.
RecommendGate(b) ==
    CASE ~b.present ->
           [answer |-> RecommendCatch(DestructureError), why |-> "exception"]
      [] b.present /\ (JFalsy(b.lat) \/ JFalsy(b.lon) \/ JFalsy(b.ndvi) \/ JFalsy(b.weatherData)) ->
           [answer |-> JsonError(400, CorsRecommend,
                         <<"Missing required data: lat, lon, ndvi, and weatherData are required.">>, <<>>),
            why |-> "validation"]
      [] OTHER ->
           IF cfg = "noopenai"
           THEN [answer |-> JsonError(500, CorsRecommend,
                              <<"Server configuration error: Missing OpenAI API key.">>, <<>>),
                 why |-> "config"]
           ELSE IF PromptThrows(b)
           THEN [answer |-> RecommendCatch(ToFixedError), why |-> "exception"]
           ELSE [answer |-> NoResp, why |-> "none"]

\* module.exports of the recommendation handler, up to the await.
RecommendHandler(r) ==
    /\ pc[r] = "idle"
    /\ \E m \in RecommendMethods, b \in RecommendBodies :
         /\ kind' = [kind EXCEPT ![r] = "recommend"]
         /\ query' = [query EXCEPT ![r] = [NoQuery EXCEPT !.method = m, !.body = b]]
         /\ IF m = "OPTIONS"
            THEN /\ Respond(r, EndEmpty(200, CorsRecommend))
                 /\ pc' = [pc EXCEPT ![r] = "done"]
                 /\ log' = [log EXCEPT ![r] = @ \o <<"respond">>]
                 /\ UNCHANGED cause
            ELSE IF m # "POST"
            THEN /\ Respond(r, JsonError(405, CorsRecommend, <<"Method Not Allowed">>, <<>>))
                 /\ pc' = [pc EXCEPT ![r] = "done"]
                 /\ cause' = [cause EXCEPT ![r] = "method"]
                 /\ log' = [log EXCEPT ![r] = @ \o <<"respond">>]
            ELSE IF RecommendGate(b).answer # NoResp
            THEN /\ Respond(r, RecommendGate(b).answer)
                 /\ pc' = [pc EXCEPT ![r] = "done"]
                 /\ cause' = [cause EXCEPT ![r] = RecommendGate(b).why]
                 /\ log' = [log EXCEPT ![r] = @ \o <<"respond">>]
            ELSE /\ pc' = [pc EXCEPT ![r] = "openai"]
                 /\ log' = [log EXCEPT ![r] = @ \o <<"generate">>]
                 /\ UNCHANGED <<resp, writes, cause>>
    /\ UNCHANGED <<pixel, cfg, cfgReads, eeSession, foreign, tile>>

\* How the request to the text-generation backend ends: a response with a
\* status and a body that parses to a completion or does not, or a socket error.
OpenAiAnswers ==
    { [event |-> "end", status |-> 200, parses |-> TRUE],
      [event |-> "end", status |-> 200, parses |-> FALSE],
      [event |-> "end", status |-> 429, parses |-> TRUE],
      [event |-> "error", status |-> 0, parses |-> FALSE] }

\* What getOpenAiRecommendation settles with for an answer: ok and the text,
\* or the Error it rejects with.
OpenAiOutcome(a) ==
    CASE a.event = "error" ->
           [ok |-> FALSE, text |-> <<"Request to OpenAI API failed: ", "socket hang up">>]
      [] a.event = "end" /\ (a.status < 200 \/ a.status >= 300) ->
           [ok |-> FALSE, text |-> <<"OpenAI API request failed with status ", "429", ": ", "{}">>]
      [] a.event = "end" /\ a.status >= 200 /\ a.status < 300 /\ ~a.parses ->
           [ok |-> FALSE, text |-> <<"Failed to parse OpenAI response.">>]
      [] OTHER ->
           [ok |-> TRUE, text |-> <<"Irrigate within 5 days.">>]

\* res.on('end') / req.on('error') of the backend request, and the rest of
\* the handler after the await.
RecommendCallback(r) ==
    /\ pc[r] = "openai"
    /\ \E a \in OpenAiAnswers :
         IF OpenAiOutcome(a).ok
         THEN /\ Respond(r, JsonRecommendation(CorsRecommend, OpenAiOutcome(a).text))
              /\ log' = [log EXCEPT ![r] = @ \o <<"generateOk", "respond">>]
              /\ UNCHANGED cause
         ELSE /\ Respond(r, RecommendCatch(NewError(OpenAiOutcome(a).text)))
              /\ log' = [log EXCEPT ![r] = @ \o <<"generateErr", "respond">>]
              /\ cause' = [cause EXCEPT ![r] = "generate"]
    /\ pc' = [pc EXCEPT ![r] = "done"]
    /\ UNCHANGED <<pixel, cfg, cfgReads, eeSession, kind, query, foreign, tile>>

NextRecommend ==
    \E r \in Req :
        \/ RecommendHandler(r)
        \/ RecommendCallback(r)

SpecRecommend == InitWith({"ok", "noopenai"}) /\ [][NextRecommend]_vars

\* A POST body lacks a required member (a body that is not there lacks all).
MissingField(b) ==
    \/ ~b.present
    \/ \E f \in {"lat", "lon", "ndvi", "weatherData"} : b[f].t = "absent"

\* C13: at the recommendation endpoint an OPTIONS request gets a 200 with an
\* empty body, any other non-POST request gets 405, a POST lacking one of
\* lat, lon, ndvi, weatherData gets 400 with a message; in none of the three
\* cases is the text-generation backend called.
C13_RecommendationGating ==
    \A r \in Req :
        kind[r] = "recommend" =>
            /\ query[r].method = "OPTIONS" =>
                 (resp[r].status = 200 /\ resp[r].type = "empty" /\ ~Has(r, "generate"))
            /\ query[r].method \notin {"OPTIONS", "POST"} =>
                 (resp[r].status = 405 /\ ~Has(r, "generate"))
            /\ (query[r].method = "POST" /\ MissingField(query[r].body)) =>
                 (resp[r].status = 400 /\ resp[r].error # <<>> /\ ~Has(r, "generate"))

-----------------------------------------------------------------------------
(* Cloud mask *)

\* An image pixel with any quality value of the width, before the mask.
InitMask == InitOf({"ok"}, [qa : QaValues, stage : {"raw"}, retained : {FALSE}])

NextMask == MaskPixel

SpecMask == InitMask /\ [][NextMask]_vars

\* Bit n of a quality value.
Bit(q, n) == (q \div 2^n) % 2

\* C14: for every quality value, the masked pixel is retained exactly when
\* bit 10 and bit 11 are both zero (masked out exactly when either is set),
\* whatever the other bits are.
C14_CloudMaskBits ==
    pixel.stage = "masked" =>
        (pixel.retained <=> (Bit(pixel.qa, 10) = 0 /\ Bit(pixel.qa, 11) = 0))

\* A pixel with the cirrus bit set, the cloud bit clear and other bits set
\* has been masked out.
C14_Witness ==
    /\ pixel.stage = "masked"
    /\ Bit(pixel.qa, 11) = 1 /\ Bit(pixel.qa, 10) = 0
    /\ Bit(pixel.qa, 0) = 1 /\ Bit(pixel.qa, 9) = 1
    /\ ~pixel.retained

\* C15: every request is answered at most once: a response is never started
\* a second time, in particular not by an upstream error that arrives after
\* the proxy began to relay the upstream response.
C15_AtMostOneResponse ==
    \A r \in Req : writes[r] <= 1

-----------------------------------------------------------------------------
(* Progress *)

\* The callbacks a suspended request of the tile or point-value endpoint
\* waits for.
Callback(r) ==
    \/ SessionStep(r)
    \/ PreflightCallback(r)
    \/ ReduceCallback(r)
    \/ GetMapCallback(r)
    \/ ProxyResponse(r)
    \/ ProxyEnd(r)
    \/ ProxyError(r)

\* Every backend call eventually invokes a callback: a request that waits
\* for one does not wait forever.  Nothing is assumed about when, or
\* whether, a request arrives.
SpecLive == Init /\ [][Next]_vars /\ \A r \in Req : WF_vars(Callback(r))

\* C16: every tile or point-value request that was taken up eventually has
\* its response: the handler has run to its end and a response was sent.
C16_EveryRequestAnswered ==
    \A r \in Req : (pc[r] # "idle") ~> (pc[r] = "done" /\ writes[r] >= 1)

\* A point-value request went through pre-flight and reduction and was
\* answered, and a proxied tile request was relayed to its end.
C16_Witness ==
    \E r1, r2 \in Req :
        /\ kind[r1] = "value4" /\ Has(r1, "reduceOk") /\ pc[r1] = "done" /\ writes[r1] = 1
        /\ kind[r2] = "tileProxy" /\ Has(r2, "fetchOk") /\ pc[r2] = "done" /\ writes[r2] = 1

====
